---- MODULE Spec2Model ----
(***************************************************************************)
(* Model of backend/scrape_539.py: the heuristic page parsers, the         *)
(* collector fetch_draws, the three statistics and main.                   *)
(*                                                                         *)
(* A text is a sequence of characters, each character a string.  The CJK   *)
(* characters of the source have ASCII names here: "kai" "jiang" "ri" "qi" *)
(* are the four characters of the label the first pilio pattern looks for, *)
(* "si" is a weekday character, "fwcolon" is the full-width colon.         *)
(***************************************************************************)
EXTENDS Integers, Sequences, FiniteSets

VARIABLES
    web,          \* environment: per source, what a fetch of it yields
    run,          \* which invocation of the script this is (1, 2, ...)
    clock,        \* datetime.now(TAIPEI) of the current invocation
    pc,           \* position of the current invocation in main / fetch_draws
    src,          \* fetch_draws: index into SOURCES of the loop
    warned,       \* fetch_draws: sources for which "[WARN] fail fetch" was printed
    all_draws,    \* fetch_draws: the accumulated list
    draws,        \* main: the Timeline fetch_draws returned
    trio_res,     \* main: (top_trio, trio_cnt, top5_trios)
    pair_res,     \* main: (best_pair, pair_cnt, top5_pairs)
    monthly_sec,  \* main: result of compute_monthly_first_second_counts
    stats_file,   \* disk: 539_stats.json
    draws_file,   \* disk: 539_draws.json
    prev_stats,   \* disk contents the previous invocation left (history)
    prev_draws,
    exit_code,    \* <<status>> once the current invocation has exited, <<>> before
    trio_arg      \* the trio handed to compute_next_pairs_for_trio

vars == <<web, run, clock, pc, src, warned, all_draws, draws, trio_res, pair_res,
          monthly_sec, stats_file, draws_file, prev_stats, prev_draws, exit_code,
          trio_arg>>

(***************************************************************************)
(* Characters and character classes of the regular expressions.            *)
(***************************************************************************)
DigitChars == <<"0", "1", "2", "3", "4", "5", "6", "7", "8", "9">>

IsDigit(c) == \E k \in 1..Len(DigitChars) : DigitChars[k] = c

DigitVal(c) == (CHOOSE k \in 1..Len(DigitChars) : DigitChars[k] = c) - 1

IsLowDigit(c) == c \in {"0", "1", "2", "3"}

IsSpace(c) == c \in {" ", "\n"}

IsCJK(c) == c \in {"kai", "jiang", "ri", "qi", "si"}

IsColon(c) == c \in {":", "fwcolon"}

IsDateSep(c) == c \in {"/", "-"}

LabelChars == <<"kai", "jiang", "ri", "qi">>

\* The character at position i, "" past either end.
At(t, i) == IF i \in 1..Len(t) THEN t[i] ELSE ""

RECURSIVE SkipSpaces(_, _)
SkipSpaces(t, i) == IF IsSpace(At(t, i)) THEN SkipSpaces(t, i + 1) ELSE i

\* int(x) of a token of one or two digits.
RECURSIVE IntOf(_)
IntOf(tok) ==
    IF tok = <<>> THEN 0
    ELSE 10 * IntOf(SubSeq(tok, 1, Len(tok) - 1)) + DigitVal(tok[Len(tok)])

(***************************************************************************)
(* The regular expressions of the parsers.  A pattern is                   *)
(*   1: label [:fwcolon] \s* (\d{4})/(\d{2})/(\d{2}) .*? (LOW) with re.S   *)
(*   2: (\d{4})/(\d{2})/(\d{2}) .*? \( [CJK] \) \s* (LOW)                  *)
(*   3: (\d{4}) \s* [/-] (\d{2}) \s* [/-] (\d{2}) .*? (ANY)                *)
(* where LOW is [0-3]?\d (?: \s* , \s* [0-3]?\d ){4}                       *)
(* and   ANY is (?: \d{1,2} \s* , \s* ){4} \d{1,2}.                        *)
(* A position is an index into the text; 0 stands for "no match".          *)
(***************************************************************************)
DigitsAt(t, p, n) == \A k \in 0..(n - 1) : IsDigit(At(t, p + k))

NoDate == [end |-> 0, y |-> <<>>, mm |-> <<>>, dd |-> <<>>]

\* (\d{4})/(\d{2})/(\d{2}) at p.
DateSlashAt(t, p) ==
    IF /\ DigitsAt(t, p, 4) /\ At(t, p + 4) = "/"
       /\ DigitsAt(t, p + 5, 2) /\ At(t, p + 7) = "/"
       /\ DigitsAt(t, p + 8, 2)
    THEN [end |-> p + 10, y |-> SubSeq(t, p, p + 3),
          mm |-> SubSeq(t, p + 5, p + 6), dd |-> SubSeq(t, p + 8, p + 9)]
    ELSE NoDate

\* (\d{4})\s*[/-](\d{2})\s*[/-](\d{2}) at p, the separators at s1 and s2.
DateLooseFrom(t, p, s1, s2) ==
    IF /\ DigitsAt(t, p, 4) /\ IsDateSep(At(t, s1))
       /\ DigitsAt(t, s1 + 1, 2) /\ IsDateSep(At(t, s2))
       /\ DigitsAt(t, s2 + 1, 2)
    THEN [end |-> s2 + 3, y |-> SubSeq(t, p, p + 3),
          mm |-> SubSeq(t, s1 + 1, s1 + 2), dd |-> SubSeq(t, s2 + 1, s2 + 2)]
    ELSE NoDate

DateLooseSep(t, p, s1) == DateLooseFrom(t, p, s1, SkipSpaces(t, s1 + 3))

DateLooseAt(t, p) == DateLooseSep(t, p, SkipSpaces(t, p + 4))

\* The label, a colon, \s* and the slash date, at p.
DateLabelAt(t, p) ==
    IF /\ \A k \in 1..Len(LabelChars) : At(t, p + k - 1) = LabelChars[k]
       /\ IsColon(At(t, p + Len(LabelChars)))
    THEN DateSlashAt(t, SkipSpaces(t, p + Len(LabelChars) + 1))
    ELSE NoDate

DateAt(t, p, pat) ==
    CASE pat = 1 -> DateLabelAt(t, p)
      [] pat = 2 -> DateSlashAt(t, p)
      [] OTHER   -> DateLooseAt(t, p)

\* k number tokens separated by \s*,\s* starting at q: the position after the
\* last one, 0 if there is none.  A token prefers two characters to one (the
\* optional [0-3] and \d{1,2} are greedy) and backtracks to one.
RECURSIVE NumsEnd(_, _, _, _)

\* \s* is behind: a comma, \s* and the k tokens left, from c.
CommaThenNums(t, c, k, low) ==
    IF At(t, c) = "," THEN NumsEnd(t, SkipSpaces(t, c + 1), k, low) ELSE 0

\* A token ends before e, k tokens are left.
AfterToken(t, e, k, low) ==
    IF k = 0 THEN e ELSE CommaThenNums(t, SkipSpaces(t, e), k, low)

OrElse(a, b) == IF a # 0 THEN a ELSE b

NumsEnd(t, q, k, low) ==
    OrElse(IF (IF low THEN IsLowDigit(At(t, q)) ELSE IsDigit(At(t, q))) /\ IsDigit(At(t, q + 1))
           THEN AfterToken(t, q + 2, k - 1, low) ELSE 0,
           IF IsDigit(At(t, q)) THEN AfterToken(t, q + 1, k - 1, low) ELSE 0)

\* The number group tried at gs: <<start, end>>, end 0 if it is not there.
GroupAt(t, gs, low) == <<gs, NumsEnd(t, gs, 5, low)>>

\* What follows the lazy .*? of a pattern, tried at j.
TailAt(t, j, pat) ==
    IF pat # 2 THEN GroupAt(t, j, pat = 1)
    ELSE IF At(t, j) = "(" /\ IsCJK(At(t, j + 1)) /\ At(t, j + 2) = ")"
    THEN GroupAt(t, SkipSpaces(t, j + 3), TRUE)
    ELSE <<0, 0>>

Min(S) == CHOOSE x \in S : \A y \in S : x <= y

\* The position of the first line break at or after j, Len(t) + 1 if none.
LineEnd(t, j) == Min({k \in j..(Len(t) + 1) : k = Len(t) + 1 \/ t[k] = "\n"})

\* Of the attempts at the positions of tries, the first that matched.
FirstGroup(tries) ==
    IF \E k \in DOMAIN tries : tries[k][2] # 0
    THEN tries[Min({k \in DOMAIN tries : tries[k][2] # 0})]
    ELSE <<0, 0>>

\* .*? from j: the nearest position where the tail matches.  Only pattern 1
\* is compiled with re.S, so only its dot crosses a line break.
Lazy(t, j, pat) ==
    FirstGroup([k \in j..(IF pat = 1 THEN Len(t) + 1 ELSE LineEnd(t, j)) |-> TailAt(t, k, pat)])

NoMatch == [y |-> <<>>, mm |-> <<>>, dd |-> <<>>, gs |-> 0, ge |-> 0]

GroupsOf(dt, g) == [y |-> dt.y, mm |-> dt.mm, dd |-> dt.dd, gs |-> g[1], ge |-> g[2]]

AfterDate(t, dt, pat) == IF dt.end = 0 THEN NoMatch ELSE GroupsOf(dt, Lazy(t, dt.end, pat))

\* The whole pattern tried at p: the date groups and the number group's
\* <<start, end>>, end 0 if the pattern does not match at p.
MatchAt(t, p, pat) == AfterDate(t, DateAt(t, p, pat), pat)

\* re.findall(r'\d{1,2}', s) from position i.
RECURSIVE FindTokens(_, _)
FindTokens(s, i) ==
    IF i > Len(s) THEN <<>>
    ELSE IF ~IsDigit(s[i]) THEN FindTokens(s, i + 1)
    ELSE IF IsDigit(At(s, i + 1))
         THEN <<SubSeq(s, i, i + 1)>> \o FindTokens(s, i + 2)
         ELSE <<SubSeq(s, i, i)>> \o FindTokens(s, i + 1)

\* Python's sort of a list by a strict order Less on its elements: stable, an
\* element goes behind those that are smaller and those that are equal and
\* come earlier.
StableSort(s, Less(_, _)) ==
    LET before(i) == {j \in 1..Len(s) : Less(s[j], s[i]) \/ (~Less(s[i], s[j]) /\ j < i)}
    IN  [r \in 1..Len(s) |-> s[CHOOSE i \in 1..Len(s) : Cardinality(before(i)) = r - 1]]

IntLess(a, b) == a < b

\* sorted(nums) of a list of integers.
sorted(s) == StableSort(s, IntLess)

\* The elements of s at the positions P, in order.
Pick(s, P) ==
    [r \in 1..Cardinality(P) |-> s[CHOOSE p \in P : Cardinality({q \in P : q < p}) = r - 1]]

\* The positions where a value of s occurs for the first time.
FirstAt(s) == {k \in 1..Len(s) : \A j \in 1..(k - 1) : s[j] # s[k]}

\* f"{y}-{mm}-{dd}"
FormatDate(y, mm, dd) == y \o <<"-">> \o mm \o <<"-">> \o dd

\* re.search from p: the match at the first position that has one.
FirstMatch(tries) ==
    IF \E q \in DOMAIN tries : tries[q].ge # 0
    THEN tries[Min({q \in DOMAIN tries : tries[q].ge # 0})]
    ELSE NoMatch

search(t, p, pat) == FirstMatch([q \in p..Len(t) |-> MatchAt(t, q, pat)])

\* [int(x) for x in re.findall(r'\d{1,2}', nums_str)], sorted.
NumsOf(toks) == sorted([k \in 1..Len(toks) |-> IntOf(toks[k])])

\* d = f"{y}-{mm}-{dd}"; if len(nums) == 5: draws.append(...)
Appended(m, nums) ==
    IF Len(nums) = 5
    THEN <<[date |-> FormatDate(m.y, m.mm, m.dd), numbers |-> nums]>>
    ELSE <<>>

RECURSIVE finditer(_, _, _)

\* The body of one "for m in re.finditer(...)" loop for the match m, and the
\* rest of the loop: the search goes on behind the match.
LoopFrom(t, m, pat) ==
    IF m.ge = 0 THEN <<>>
    ELSE Appended(m, NumsOf(FindTokens(SubSeq(t, m.gs, m.ge - 1), 1)))
         \o finditer(t, m.ge, pat)

\* The records one pattern appends, searching from p.
finditer(t, p, pat) == LoopFrom(t, search(t, p, pat), pat)

\* The "seen" loop closing both parsers: the first occurrence of every
\* (date, numbers) key, in order.
Dedup(ds) == Pick(ds, FirstAt(ds))

_extract_draws_from_html_pilio(t) ==
    Dedup(finditer(t, 1, 1) \o finditer(t, 1, 2) \o finditer(t, 1, 3))

\* soup.get_text(" ", strip=True) of a page without markup: the text stripped.
RECURSIVE LStrip(_)
LStrip(t) == IF t # <<>> /\ IsSpace(t[1]) THEN LStrip(Tail(t)) ELSE t

RECURSIVE RStrip(_)
RStrip(t) == IF t # <<>> /\ IsSpace(t[Len(t)]) THEN RStrip(SubSeq(t, 1, Len(t) - 1)) ELSE t

get_text(t) == RStrip(LStrip(t))

_extract_draws_from_html_lotto8(t) == Dedup(finditer(get_text(t), 1, 3))

(***************************************************************************)
(* fetch_draws: the merge by date and the sort.                            *)
(***************************************************************************)
\* ord(c) of the characters a date string is made of.
Ord(c) == IF c = "-" THEN 45 ELSE 48 + DigitVal(c)

\* a < b of two Python strings.
RECURSIVE StrLess(_, _)
StrLess(a, b) ==
    IF b = <<>> THEN FALSE
    ELSE IF a = <<>> THEN TRUE
    ELSE IF a[1] = b[1] THEN StrLess(Tail(a), Tail(b))
    ELSE Ord(a[1]) < Ord(b[1])

Dates(ds) == [k \in 1..Len(ds) |-> ds[k].date]

\* The merge with "if d["date"] not in tmp" before the assignment: the first
\* record of a date is kept.
DictByDateFirst(ds) == Pick(ds, FirstAt(Dates(ds)))

\* tmp = {}; for d in all_draws: tmp[d["date"]] = d; list(tmp.values()).
\* A dict keeps a key at the place of its first insertion and the value of
\* its last assignment.
DictByDate(ds) ==
    LET keys == Pick(Dates(ds), FirstAt(Dates(ds)))
        last(d) == CHOOSE k \in 1..Len(ds) :
                       ds[k].date = d /\ \A j \in (k + 1)..Len(ds) : ds[j].date # d
    IN  [r \in 1..Len(keys) |-> ds[last(keys[r])]]

DateLess(a, b) == StrLess(a.date, b.date)

\* The list left in the order of the dict.
SortByDateSkipped(s) == s

\* list.sort(key=lambda x: x["date"]) and sorted(arr, key=lambda x: x["date"])
SortByDate(s) == StableSort(s, DateLess)

\* Lines 134-140 of fetch_draws: what it returns for the accumulated list.
MergeDraws(ds) == SortByDate(DictByDate(ds))

(***************************************************************************)
(* collections.Counter: a sequence of [key, n] in insertion order.         *)
(***************************************************************************)
\* The Counter after "for key in keys: counter[key] += 1": the keys in the
\* order of their first insertion, each with the number of its occurrences.
Counter(keys) ==
    LET ks == Pick(keys, FirstAt(keys))
    IN  [r \in 1..Len(ks) |->
            [key |-> ks[r], n |-> Cardinality({j \in 1..Len(keys) : keys[j] = ks[r]})]]

CountMore(a, b) == a.n > b.n

\* most_common over a container whose iteration order changes from one
\* invocation to the next, as that of a set of strings does.
most_common_unordered(c, n) ==
    LET it == IF clock % 2 = 0 THEN [k \in 1..Len(c) |-> c[Len(c) + 1 - k]] ELSE c
        all == StableSort(it, CountMore)
    IN  SubSeq(all, 1, IF n < Len(all) THEN n ELSE Len(all))

\* Counter.most_common(n): sorted by falling count, ties in insertion order
\* (heapq.nlargest is sorted(..., reverse=True)[:n], and max for n = 1).
most_common(c, n) ==
    LET all == StableSort(c, CountMore)
    IN  SubSeq(all, 1, IF n < Len(all) THEN n ELSE Len(all))

\* itertools.combinations(s, r), as a list.
RECURSIVE combinations(_, _)
combinations(s, r) ==
    IF r = 0 THEN << <<>> >>
    ELSE IF Len(s) < r THEN <<>>
    ELSE LET with == combinations(Tail(s), r - 1)
         IN  [k \in 1..Len(with) |-> <<s[1]>> \o with[k]] \o combinations(Tail(s), r)

(***************************************************************************)
(* The three statistics.                                                   *)
(***************************************************************************)
\* The keys the two nested loops of compute_top_trio count, in order.
RECURSIVE TrioKeys(_, _)
TrioKeys(ds, i) ==
    IF i > Len(ds) THEN <<>>
    ELSE combinations(ds[i].numbers, 3) \o TrioKeys(ds, i + 1)

compute_top_trio(ds) ==
    LET counter == Counter(TrioKeys(ds, 1))
    IN  IF counter = <<>> THEN [best |-> <<0, 0, 0>>, count |-> 0, top5 |-> <<>>]
        ELSE [best |-> most_common(counter, 1)[1].key,
              count |-> most_common(counter, 1)[1].n,
              top5 |-> most_common(counter, 5)]

Elems(s) == {s[k] : k \in 1..Len(s)}

\* The keys the loop "for i, d in enumerate(draws[:-1])" counts from index i
\* on (1-based), in order.
RECURSIVE PairKeys(_, _, _)
PairKeys(ds, trio, i) ==
    IF i > Len(ds) - 1 THEN <<>>
    ELSE (IF Elems(trio) \subseteq Elems(ds[i].numbers)
          THEN LET ps == combinations(ds[i + 1].numbers, 2)
               IN  [k \in 1..Len(ps) |-> sorted(ps[k])]
          ELSE <<>>)
         \o PairKeys(ds, trio, i + 1)

compute_next_pairs_for_trio(ds, trio) ==
    LET pair_counter == Counter(PairKeys(ds, trio, 1))
    IN  IF pair_counter = <<>> THEN [best |-> <<0, 0>>, count |-> 0, top5 |-> <<>>]
        ELSE [best |-> most_common(pair_counter, 1)[1].key,
              count |-> most_common(pair_counter, 1)[1].n,
              top5 |-> most_common(pair_counter, 5)]

\* datetime.fromisoformat(d) of a YYYY-MM-DD string: year, month and day, and
\* whether it is a date (otherwise fromisoformat raises ValueError).
IsLeap(y) == y % 4 = 0 /\ (y % 100 # 0 \/ y % 400 = 0)

DaysInMonth(y, m) ==
    IF m = 2 THEN (IF IsLeap(y) THEN 29 ELSE 28)
    ELSE IF m \in {4, 6, 9, 11} THEN 30 ELSE 31

fromisoformat(d) ==
    LET y == IntOf(SubSeq(d, 1, 4))
        m == IntOf(SubSeq(d, 6, 7))
        dd == IntOf(SubSeq(d, 9, 10))
    IN  [year |-> y, month |-> m, day |-> dd,
         ok |-> y >= 1 /\ m \in 1..12 /\ dd >= 1 /\ dd <= DaysInMonth(y, m)]

\* The bucket key without the year: key = dt.month.
MonthKeyNoYear(d) == <<0, fromisoformat(d.date).month>>

MonthKey(d) == <<fromisoformat(d.date).year, fromisoformat(d.date).month>>

\* by_month: a list of [key, arr] in insertion order of the keys, arr the
\* draws of that (year, month) in timeline order.
ByMonth(ds) ==
    LET all == [k \in 1..Len(ds) |-> MonthKey(ds[k])]
        keys == Pick(all, FirstAt(all))
    IN  [r \in 1..Len(keys) |->
            [key |-> keys[r], arr |-> Pick(ds, {k \in 1..Len(ds) : all[k] = keys[r]})]]

\* second_numbers: per bucket, numbers[1] of its first draw by date.
SecondNumbers(b) ==
    LET has(r) == SortByDate(b[r].arr) # <<>> /\ Len(SortByDate(b[r].arr)[1].numbers) >= 2
    IN  Pick([r \in 1..Len(b) |-> IF has(r) THEN SortByDate(b[r].arr)[1].numbers[2] ELSE 0],
             {r \in 1..Len(b) : has(r)})

KeyLess(a, b) == a.key < b.key

ValueError == [raised |-> "ValueError"]

\* The result, or ValueError when a date of the timeline is no date.
compute_monthly_first_second_counts(ds) ==
    IF \E k \in 1..Len(ds) : ~fromisoformat(ds[k].date).ok THEN ValueError
    ELSE LET c == Counter(SecondNumbers(ByMonth(ds)))
             top == most_common(c, 2)
         IN  [counts |-> StableSort(c, KeyLess), top2 |-> [k \in 1..Len(top) |-> top[k].key]]

(***************************************************************************)
(* Page texts in the formats the parsers' docstring names.                 *)
(***************************************************************************)
\* n as two digits, and as four.
Two(n) == <<DigitChars[((n \div 10) % 10) + 1], DigitChars[(n % 10) + 1]>>

Four(n) == Two(n \div 100) \o Two(n % 100)

\* "05, 07, 21, 23, 29"
RECURSIVE NumList(_)
NumList(ns) ==
    IF Len(ns) = 0 THEN <<>>
    ELSE IF Len(ns) = 1 THEN Two(ns[1])
    ELSE Two(ns[1]) \o <<",", " ">> \o NumList(Tail(ns))

\* "2025/08/28" for ymd = <<2025, 8, 28>>
SlashDate(ymd) == Four(ymd[1]) \o <<"/">> \o Two(ymd[2]) \o <<"/">> \o Two(ymd[3])

\* "kai jiang ri qi :2025/08/28   05, 07, 21, 23, 29"
LabelLine(ymd, ns) == LabelChars \o <<":">> \o SlashDate(ymd) \o <<" ", " ", " ">> \o NumList(ns)

\* "2025/08/28 (si) 05, 07, 21, 23, 29"
WeekdayLine(ymd, ns) == SlashDate(ymd) \o <<" ", "(", "si", ")", " ">> \o NumList(ns)

\* "2025-08-28 05, 07, 21, 23, 29"
PlainLine(ymd, ns) ==
    Four(ymd[1]) \o <<"-">> \o Two(ymd[2]) \o <<"-">> \o Two(ymd[3]) \o <<" ">> \o NumList(ns)

\* The pages a source may serve.
Pages ==
    { LabelLine(<<2024, 1, 5>>, <<2, 9, 15, 22, 33>>),
      WeekdayLine(<<2024, 1, 20>>, <<1, 2, 3, 4, 5>>),
      WeekdayLine(<<2024, 1, 5>>, <<1, 2, 3, 6, 7>>),
      WeekdayLine(<<2024, 2, 3>>, <<1, 2, 3, 4, 5>>) \o <<"\n">>
          \o WeekdayLine(<<2024, 1, 20>>, <<6, 7, 8, 9, 10>>),
      PlainLine(<<2024, 13, 45>>, <<1, 2, 3, 4, 5>>),
      WeekdayLine(<<2024, 2, 3>>, <<1, 2, 3, 4, 45>>),
      PlainLine(<<2024, 1, 5>>, <<1, 2, 3, 4>>) }

\* What "sess.get(url); r.raise_for_status(); parse" can come to: a page, or
\* an exception of requests (timeout, connection), of raise_for_status, or
\* raised while parsing.
FailKinds == {"timeout", "http_error", "parser_error"}

Outcomes == [kind : {"ok"}, text : Pages] \cup [kind : FailKinds, text : {<<>>}]

(***************************************************************************)
(* The program.                                                            *)
(***************************************************************************)
\* SOURCES, each by the parser its URL selects ("pilio.idv.tw" in url).
SOURCES == <<"pilio", "pilio", "lotto8">>

MaxRuns == 2

\* A variable not assigned yet, a file not on disk.
None == [none |-> TRUE]

Absent == [absent |-> TRUE]

\* The dispatch of lines 126-129.
ParsePage(i, t) ==
    IF SOURCES[i] = "pilio" THEN _extract_draws_from_html_pilio(t)
    ELSE _extract_draws_from_html_lotto8(t)

Init ==
    /\ web \in [1..Len(SOURCES) -> Outcomes]
    /\ run = 1
    /\ clock = 1
    /\ pc = "fetch"
    /\ src = 1
    /\ warned = {}
    /\ all_draws = <<>>
    /\ draws = <<>>
    /\ trio_res = None
    /\ pair_res = None
    /\ monthly_sec = None
    /\ stats_file = Absent
    /\ draws_file = Absent
    /\ prev_stats = Absent
    /\ prev_draws = Absent
    /\ exit_code = <<>>
    /\ trio_arg = <<>>

\* One pass of the loop of fetch_draws whose try block completes.
FetchOk ==
    /\ pc = "fetch"
    /\ web[src].kind = "ok"
    /\ all_draws' = all_draws \o ParsePage(src, web[src].text)
    /\ src' = src + 1
    /\ pc' = IF src = Len(SOURCES) THEN "merge" ELSE "fetch"
    /\ UNCHANGED <<web, run, clock, warned, draws, trio_res, pair_res, monthly_sec,
                   stats_file, draws_file, prev_stats, prev_draws, exit_code, trio_arg>>

\* The loop without its try/except: the exception leaves fetch_draws and main.
FetchFailAborts ==
    /\ pc = "fetch"
    /\ web[src].kind \in FailKinds
    /\ exit_code' = <<1>>
    /\ pc' = "crashed"
    /\ UNCHANGED <<web, run, clock, src, warned, all_draws, draws, trio_res, pair_res,
                   monthly_sec, stats_file, draws_file, prev_stats, prev_draws, trio_arg>>

\* One pass whose try block raises: the except clause prints the warning.
FetchFail ==
    /\ pc = "fetch"
    /\ web[src].kind \in FailKinds
    /\ warned' = warned \cup {src}
    /\ src' = src + 1
    /\ pc' = IF src = Len(SOURCES) THEN "merge" ELSE "fetch"
    /\ UNCHANGED <<web, run, clock, all_draws, draws, trio_res, pair_res, monthly_sec,
                   stats_file, draws_file, prev_stats, prev_draws, exit_code, trio_arg>>

\* The end of fetch_draws: merge by date, sort, return to main.
Merge ==
    /\ pc = "merge"
    /\ draws' = MergeDraws(all_draws)
    /\ pc' = "check"
    /\ UNCHANGED <<web, run, clock, src, warned, all_draws, trio_res, pair_res, monthly_sec,
                   stats_file, draws_file, prev_stats, prev_draws, exit_code, trio_arg>>

\* main: "if not draws: raise SystemExit(message)", exit status 1.
NoDraws ==
    /\ pc = "check"
    /\ draws = <<>>
    /\ exit_code' = <<1>>
    /\ pc' = "fatal"
    /\ UNCHANGED <<web, run, clock, src, warned, all_draws, draws, trio_res, pair_res,
                   monthly_sec, stats_file, draws_file, prev_stats, prev_draws, trio_arg>>

TopTrio ==
    /\ pc = "check"
    /\ draws # <<>>
    /\ trio_res' = compute_top_trio(draws)
    /\ trio_arg' = compute_top_trio(draws).best
    /\ pc' = "next_pairs"
    /\ UNCHANGED <<web, run, clock, src, warned, all_draws, draws, pair_res, monthly_sec,
                   stats_file, draws_file, prev_stats, prev_draws, exit_code>>

NextPairs ==
    /\ pc = "next_pairs"
    /\ pair_res' = compute_next_pairs_for_trio(draws, trio_arg)
    /\ pc' = "monthly"
    /\ UNCHANGED <<web, run, clock, src, warned, all_draws, draws, trio_res, monthly_sec,
                   stats_file, draws_file, prev_stats, prev_draws, exit_code, trio_arg>>

Monthly ==
    /\ pc = "monthly"
    /\ compute_monthly_first_second_counts(draws) # ValueError
    /\ monthly_sec' = compute_monthly_first_second_counts(draws)
    /\ pc' = "save_stats"
    /\ UNCHANGED <<web, run, clock, src, warned, all_draws, draws, trio_res, pair_res,
                   stats_file, draws_file, prev_stats, prev_draws, exit_code, trio_arg>>

\* The ValueError of datetime.fromisoformat leaves main: a traceback, status 1.
MonthlyRaises ==
    /\ pc = "monthly"
    /\ compute_monthly_first_second_counts(draws) = ValueError
    /\ exit_code' = <<1>>
    /\ pc' = "crashed"
    /\ UNCHANGED <<web, run, clock, src, warned, all_draws, draws, trio_res, pair_res,
                   monthly_sec, stats_file, draws_file, prev_stats, prev_draws, trio_arg>>

\* [[list(k), v] for k, v in top5]
Top5Json(top5) == [k \in 1..Len(top5) |-> <<top5[k].key, top5[k].n>>]

\* The dict "out" of main.
StatsDoc ==
    [generated_at |-> clock,
     source_urls |-> SOURCES,
     num_draws |-> Len(draws),
     top_trio |-> [numbers |-> trio_res.best, count |-> trio_res.count,
                   top5 |-> Top5Json(trio_res.top5)],
     next_draw_top_pair_given_trio |->
         [trio |-> trio_res.best, pair |-> pair_res.best, count |-> pair_res.count,
          top5 |-> Top5Json(pair_res.top5)],
     monthly_first_draw_second_number |-> monthly_sec]

SaveStats ==
    /\ pc = "save_stats"
    /\ stats_file' = StatsDoc
    /\ pc' = "save_draws"
    /\ UNCHANGED <<web, run, clock, src, warned, all_draws, draws, trio_res, pair_res,
                   monthly_sec, draws_file, prev_stats, prev_draws, exit_code, trio_arg>>

\* The second save_json, the print and "return 0".
SaveDraws ==
    /\ pc = "save_draws"
    /\ draws_file' = [draws |-> draws]
    /\ exit_code' = <<0>>
    /\ pc' = "done"
    /\ UNCHANGED <<web, run, clock, src, warned, all_draws, draws, trio_res, pair_res,
                   monthly_sec, stats_file, prev_stats, prev_draws, trio_arg>>

Ended == pc \in {"done", "fatal", "crashed"}

\* The next invocation of the script, the sources serving what they served:
\* a fresh process, a later time, the files of the last invocation on disk.
Rerun ==
    /\ Ended
    /\ run < MaxRuns
    /\ run' = run + 1
    /\ clock' = clock + 1
    /\ prev_stats' = stats_file
    /\ prev_draws' = draws_file
    /\ pc' = "fetch"
    /\ src' = 1
    /\ warned' = {}
    /\ all_draws' = <<>>
    /\ draws' = <<>>
    /\ trio_res' = None
    /\ pair_res' = None
    /\ monthly_sec' = None
    /\ exit_code' = <<>>
    /\ trio_arg' = <<>>
    /\ UNCHANGED <<web, stats_file, draws_file>>

Next ==
    \/ FetchOk \/ FetchFail \/ Merge \/ NoDraws \/ TopTrio \/ NextPairs
    \/ Monthly \/ MonthlyRaises \/ SaveStats \/ SaveDraws \/ Rerun

Spec == Init /\ [][Next]_vars

(***************************************************************************)
(* The three statistics called on their own, on every timeline of at most  *)
(* MaxDraws draws over a few dates and number lists: a timeline is what    *)
(* fetch_draws returns, ascending by date string, a date at most once,     *)
(* every draw five numbers in ascending order.                             *)
(***************************************************************************)
MaxDraws == 3

IsoDate(ymd) == FormatDate(Four(ymd[1]), Two(ymd[2]), Two(ymd[3]))

StatDates ==
    { IsoDate(<<2023, 1, 20>>), IsoDate(<<2024, 1, 5>>), IsoDate(<<2024, 1, 20>>),
      IsoDate(<<2024, 2, 3>>), IsoDate(<<2024, 13, 45>>) }

StatNums == { <<1, 2, 3, 4, 5>>, <<1, 2, 3, 6, 7>>, <<2, 9, 15, 22, 33>>, <<5, 5, 5, 7, 9>> }

\* The timeline of the draws f: a function from its dates to their numbers.
TimelineOf(f) ==
    [r \in 1..Cardinality(DOMAIN f) |->
        LET d == CHOOSE d \in DOMAIN f :
                     Cardinality({e \in DOMAIN f : StrLess(e, d)}) = r - 1
        IN  [date |-> d, numbers |-> f[d]]]

Timelines ==
    { TimelineOf(f) :
        f \in UNION { [S -> StatNums] : S \in {S \in SUBSET StatDates : Cardinality(S) <= MaxDraws} } }

TrioArgs == { <<1, 2, 3>>, <<5, 5, 7>>, <<6, 7, 8>> }

InitStats ==
    /\ web = [i \in 1..Len(SOURCES) |-> [kind |-> "timeout", text |-> <<>>]]
    /\ run = 1
    /\ clock = 1
    /\ pc = "call_top_trio"
    /\ src = 1
    /\ warned = {}
    /\ all_draws = <<>>
    /\ draws \in Timelines
    /\ trio_res = None
    /\ pair_res = None
    /\ monthly_sec = None
    /\ stats_file = Absent
    /\ draws_file = Absent
    /\ prev_stats = Absent
    /\ prev_draws = Absent
    /\ exit_code = <<>>
    /\ trio_arg \in TrioArgs

CallTopTrio ==
    /\ pc = "call_top_trio"
    /\ trio_res' = compute_top_trio(draws)
    /\ pc' = "call_next_pairs"
    /\ UNCHANGED <<web, run, clock, src, warned, all_draws, draws, pair_res, monthly_sec,
                   stats_file, draws_file, prev_stats, prev_draws, exit_code, trio_arg>>

CallNextPairs ==
    /\ pc = "call_next_pairs"
    /\ pair_res' = compute_next_pairs_for_trio(draws, trio_arg)
    /\ pc' = "call_monthly"
    /\ UNCHANGED <<web, run, clock, src, warned, all_draws, draws, trio_res, monthly_sec,
                   stats_file, draws_file, prev_stats, prev_draws, exit_code, trio_arg>>

CallMonthly ==
    /\ pc = "call_monthly"
    /\ monthly_sec' = compute_monthly_first_second_counts(draws)
    /\ pc' = "returned"
    /\ UNCHANGED <<web, run, clock, src, warned, all_draws, draws, trio_res, pair_res,
                   stats_file, draws_file, prev_stats, prev_draws, exit_code, trio_arg>>

NextStats == CallTopTrio \/ CallNextPairs \/ CallMonthly

SpecStats == InitStats /\ [][NextStats]_vars

(***************************************************************************)
(* The collector and main (specification Spec).                            *)
(***************************************************************************)
\* What source i contributes: the records its parser returns for the page
\* it serves, nothing when the fetch or the parse fails.
Part(i) == IF web[i].kind = "ok" THEN ParsePage(i, web[i].text) ELSE <<>>

\* The parts of the first n sources, in declared order.
RECURSIVE Accumulated(_)
Accumulated(n) == IF n = 0 THEN <<>> ELSE Accumulated(n - 1) \o Part(n)

\* The timeline tl holds record r.
Holds(tl, r) == \E j \in 1..Len(tl) : tl[j] = r

\* r is the last record of its date in the list acc.
IsLastOfDate(acc, k) == \A l \in (k + 1)..Len(acc) : acc[l].date # acc[k].date

LastWriteWins(tl, acc) ==
    /\ \A k \in 1..Len(acc) : IsLastOfDate(acc, k) => Holds(tl, acc[k])
    /\ \A j \in 1..Len(tl) : \E k \in 1..Len(acc) : IsLastOfDate(acc, k) /\ acc[k] = tl[j]
    /\ \A i, j \in 1..Len(tl) : tl[i].date = tl[j].date => i = j

\* C1: the Timeline fetch_draws returns holds, for each date of the
\* accumulated list, exactly the numbers of the last record of that date and
\* nothing else; the list is the sources' parser results in declared order,
\* so of two sources with records of one date the later source's is kept.
C1_LastWriteWins ==
    pc = "check" =>
        /\ LastWriteWins(draws, all_draws)
        /\ LastWriteWins(draws, Accumulated(Len(SOURCES)))

\* Two sources returned different numbers for one date and the timeline has
\* the later source's.
C1_Witness ==
    /\ pc = "check"
    /\ \E i, j \in 1..Len(SOURCES) :
         /\ i < j
         /\ \E k \in 1..Len(Part(i)), l \in 1..Len(Part(j)) :
              /\ Part(i)[k].date = Part(j)[l].date
              /\ Part(i)[k].numbers # Part(j)[l].numbers
              /\ Holds(draws, Part(j)[l])
              /\ ~Holds(draws, Part(i)[k])

\* The calendar position of a record's date: year, month and day as numbers.
DayKey(r) ==
    (fromisoformat(r.date).year * 10000) + (fromisoformat(r.date).month * 100)
        + fromisoformat(r.date).day

StrictlyAscending(tl) == \A k \in 1..(Len(tl) - 1) : DayKey(tl[k]) < DayKey(tl[k + 1])

\* C2: whatever the sources served, the Timeline fetch_draws returns, and
\* the draws document written from it, is strictly ascending by date, so no
\* date occurs twice.
C2_AscendingUnique ==
    /\ pc \notin {"fetch", "merge"} => StrictlyAscending(draws)
    /\ draws_file # Absent => StrictlyAscending(draws_file.draws)

\* A timeline of several dates whose records were accumulated out of order.
C2_Witness ==
    /\ pc = "check"
    /\ Len(draws) >= 3
    /\ \E k, l \in 1..Len(all_draws) : k < l /\ DayKey(all_draws[l]) < DayKey(all_draws[k])

\* C3: a source whose fetch or parse fails is warned about and contributes
\* nothing, the loop goes on to the remaining sources, nothing else runs
\* before every source was attempted, every record of the sources that
\* succeeded has its date in the Timeline, and the run ends on "No draws
\* parsed" only if no record was parsed at all.
C3_FailureSkipsSource ==
    /\ warned = {i \in 1..(src - 1) : web[i].kind \in FailKinds}
    /\ pc \in {"fetch", "merge"} => all_draws = Accumulated(src - 1)
    /\ pc # "fetch" => src = Len(SOURCES) + 1
    /\ pc = "check" =>
         \A k \in 1..Len(all_draws) : \E j \in 1..Len(draws) : draws[j].date = all_draws[k].date
    /\ pc = "fatal" => all_draws = <<>>

\* The first source failed, a later one succeeded, and the run wrote its
\* documents from the later one's records.
C3_Witness ==
    /\ pc = "done"
    /\ 1 \in warned
    /\ Cardinality(warned) = 2
    /\ draws # <<>>
    /\ draws_file = [draws |-> draws]

\* C4: a run that ended with an empty Timeline ended on the fatal exit, with
\* no statistic computed and no document written; a run that ended with a
\* Timeline that is not empty computed the three statistics, wrote both
\* documents and exited with status 0.
C4_EmptyFatalElseSuccess ==
    Ended =>
        IF draws = <<>>
        THEN /\ pc = "fatal" /\ exit_code = <<1>>
             /\ trio_res = None /\ pair_res = None /\ monthly_sec = None
             /\ stats_file = prev_stats /\ draws_file = prev_draws
        ELSE /\ pc = "done" /\ exit_code = <<0>>
             /\ trio_res # None /\ pair_res # None /\ monthly_sec # None
             /\ stats_file = StatsDoc /\ draws_file = [draws |-> draws]

InRange(r) == Len(r.numbers) = 5 /\ \A k \in 1..Len(r.numbers) : r.numbers[k] \in 1..39

\* C5: every record a parser returned, and every record of the Timeline,
\* has exactly 5 numbers, each in 1..39.
C5_NumbersInRange ==
    /\ \A k \in 1..Len(all_draws) : InRange(all_draws[k])
    /\ \A k \in 1..Len(draws) : InRange(draws[k])

\* One document is the other but for generated_at.
SameButTimestamp(a, b) ==
    IF a = Absent \/ b = Absent THEN a = b
    ELSE [a EXCEPT !.generated_at = 0] = [b EXCEPT !.generated_at = 0]

C10_DatesValidNoFault ==
    /\ pc # "crashed"
    /\ \A k \in 1..Len(draws) : fromisoformat(draws[k].date).ok

(***************************************************************************)
(* The three statistics (specification SpecStats).                         *)
(***************************************************************************)
\* The draws of the timeline whose numbers contain every number of key.
DrawsContaining(tl, key) ==
    {i \in 1..Len(tl) : Elems(key) \subseteq Elems(tl[i].numbers)}

\* Every 3-combination of every draw: the numbers at three positions.
AllTrios(tl) ==
    { <<tl[i].numbers[a], tl[i].numbers[b], tl[i].numbers[c]>> :
        <<i, a, b, c>> \in
            {q \in (1..Len(tl)) \X (1..5) \X (1..5) \X (1..5) : q[2] < q[3] /\ q[3] < q[4]} }

\* C6: the count compute_top_trio returns is the number of draws whose
\* numbers contain the three numbers of the trio it returns, no
\* 3-combination of any draw is in more draws, and for the empty timeline
\* the result is the trio (0,0,0), count 0 and an empty top-5 list.
C6_TopTrioTally ==
    pc # "call_top_trio" =>
        IF draws = <<>>
        THEN trio_res = [best |-> <<0, 0, 0>>, count |-> 0, top5 |-> <<>>]
        ELSE /\ trio_res.count = Cardinality(DrawsContaining(draws, trio_res.best))
             /\ \A t \in AllTrios(draws) :
                    Cardinality(DrawsContaining(draws, t)) <= trio_res.count

\* The indices at which the trio triggers: every draw but the last that
\* contains the trio's numbers.
Triggers(tl, trio) == {i \in DrawsContaining(tl, trio) : i < Len(tl)}

\* The number of triggering indices whose next draw contains the pair.
PairTally(tl, trio, pair) ==
    Cardinality({i \in Triggers(tl, trio) : Elems(pair) \subseteq Elems(tl[i + 1].numbers)})

\* Every unordered pair of every draw that follows a triggering draw.
AllPairs(tl, trio) ==
    { sorted(<<tl[i + 1].numbers[a], tl[i + 1].numbers[b]>>) :
        <<i, a, b>> \in {q \in Triggers(tl, trio) \X (1..5) \X (1..5) : q[2] < q[3]} }

\* C7: the count compute_next_pairs_for_trio gives a pair is the number of
\* triggering indices (the last draw is none) whose next draw contains both
\* numbers of the pair, the pair it returns has the greatest such count, and
\* when no index triggers the result is the pair (0,0), count 0 and an empty
\* top-5 list.
C7_NextPairsTally ==
    pc \in {"call_monthly", "returned"} =>
        IF Triggers(draws, trio_arg) = {}
        THEN pair_res = [best |-> <<0, 0>>, count |-> 0, top5 |-> <<>>]
        ELSE /\ pair_res.count = PairTally(draws, trio_arg, pair_res.best)
             /\ \A k \in 1..Len(pair_res.top5) :
                    pair_res.top5[k].n = PairTally(draws, trio_arg, pair_res.top5[k].key)
             /\ \A p \in AllPairs(draws, trio_arg) :
                    PairTally(draws, trio_arg, p) <= pair_res.count

\* The (year, month) buckets of the timeline, read off the date's characters.
YearMonth(r) == <<IntOf(SubSeq(r.date, 1, 4)), IntOf(SubSeq(r.date, 6, 7))>>

Buckets(tl) == {YearMonth(tl[k]) : k \in 1..Len(tl)}

\* The second stored number of the bucket's chronologically earliest draw.
EarliestSecond(tl, b) ==
    LET in == {k \in 1..Len(tl) : YearMonth(tl[k]) = b}
        first == CHOOSE k \in in : \A j \in in : DayKey(tl[k]) <= DayKey(tl[j])
    IN  tl[first].numbers[2]

\* The number of buckets whose earliest draw has v as its second number.
MonthTally(tl, v) == Cardinality({b \in Buckets(tl) : EarliestSecond(tl, b) = v})

RECURSIVE SumOfCounts(_)
SumOfCounts(c) == IF c = <<>> THEN 0 ELSE c[1].n + SumOfCounts(Tail(c))

====
